---- MODULE Spec2Model ----
(***************************************************************************)
(* Model of registry/scripts/generate-registry.py: the registry builder    *)
(* (main), the declaration parser (parse_skill_md) and the content hasher   *)
(* (compute_content_hash).                                                  *)
(*                                                                          *)
(* Strings are sequences of code points, so that Python's ordering of str   *)
(* (code point by code point, a proper prefix first) is computed rather     *)
(* than assumed.  A package tree is a set of files [path, data]: path is    *)
(* the sequence of name components below the package directory, data the    *)
(* file's bytes.                                                            *)
(***************************************************************************)
EXTENDS Integers, Sequences, FiniteSets, TLC

VARIABLES
    \* compute_content_hash on its own
    tree,           \* the package tree being hashed
    runs,           \* the hash runs made on the current tree
    prior,          \* the hash runs made before the tree was edited
    lastEdit,       \* the edit that produced the current tree
    \* main
    host,           \* the host family the run takes place on
    root,           \* the skills root: absent, or its entries by name
    output,         \* the file at OUTPUT_FILE
    pc,             \* the position of main
    todo,           \* the entries the scan loop has not taken yet
    entry,          \* the entry the scan loop is at
    skills,         \* the in-progress registry
    errors,         \* the error counter
    frontmatter,    \* the result of parse_skill_md for the current entry
    content_hash,   \* the result of compute_content_hash for it
    stderr,         \* the diagnostics printed so far
    status,         \* the exit status, once pc = "exit"
    raised,         \* the uncaught exception that ended the run, if any
    calls           \* the calls and appends made so far, in order

hashVars == <<tree, runs, prior, lastEdit>>

mainVars == <<host, root, output, pc, todo, entry, skills, errors, frontmatter,
              content_hash, stderr, status, raised, calls>>

vars == <<hashVars, mainVars>>

(***************************************************************************)
(* Bounds and input alphabets                                               *)
(***************************************************************************)
\* Largest number of files in a package tree.
MaxFiles == 2

\* Largest number of hash runs recorded for one tree.
MaxRuns == 2

\* os.sep of the two host families.
PosixSep == 47
NtSep == 92

Hosts == {"posix", "nt"}

Last(p) == p[Len(p)]
Front(p) == SubSeq(p, 1, Len(p) - 1)

Sep(h) == IF h = "nt" THEN NtSep ELSE PosixSep

\* File names: "ab", "aba", "ba".
FileNames == { <<97, 98>>, <<97, 98, 97>>, <<98, 97>> }

\* Directories of the tree universe, as component sequences: ".", "a",
\* "a-b", "a/a".
DirPaths == { <<>>, << <<97>> >>, << <<97, 45, 98>> >>, << <<97>>, <<97>> >> }

\* File contents: b"", b"a".
Contents == { <<>>, <<97>> }

FilePaths == { d \o <<n>> : d \in DirPaths, n \in FileNames }

FileUniverse == [path : FilePaths, data : Contents]

\* A tree holds at most one file per path.
IsTree(T) == \A f \in T : \A g \in T : f.path = g.path => f = g

\* The trees of at most n files drawn from U.
RECURSIVE TreesUpTo(_, _)
TreesUpTo(U, n) ==
    IF n = 0 THEN { {} }
    ELSE LET S == TreesUpTo(U, n - 1)
         IN  S \cup { T \cup {f} : T \in S, f \in U }

\* The trees that are hashed and then edited.
EditTrees == { T \in TreesUpTo(FileUniverse, MaxFiles) : IsTree(T) }

\* The trees that are hashed repeatedly: files named "ab" and "ba".
Trees ==
    LET U == { f \in FileUniverse : Last(f.path) \in { <<97, 98>>, <<98, 97>> } }
    IN  { T \in TreesUpTo(U, MaxFiles) : IsTree(T) }

(***************************************************************************)
(* Strings                                                                  *)
(***************************************************************************)
\* Python's s < t on str: the first differing code point decides, and a
\* proper prefix is smaller.
StrLess(s, t) ==
    \E i \in 1..(Len(s) + 1) :
        /\ i - 1 <= Len(t)
        /\ \A j \in 1..(i - 1) : s[j] = t[j]
        /\ \/ i = Len(s) + 1 /\ Len(t) >= i
           \/ i <= Len(s) /\ i <= Len(t) /\ s[i] < t[i]

RECURSIVE Flatten(_)
Flatten(ss) == IF ss = <<>> THEN <<>> ELSE Head(ss) \o Flatten(Tail(ss))

\* str.encode("utf-8") of one code point (not a surrogate).
Utf8Char(c) ==
    IF c < 128 THEN <<c>>
    ELSE IF c < 2048 THEN <<192 + (c \div 64), 128 + (c % 64)>>
    ELSE IF c < 65536
        THEN <<224 + (c \div 4096), 128 + ((c \div 64) % 64), 128 + (c % 64)>>
    ELSE <<240 + (c \div 262144), 128 + ((c \div 4096) % 64),
           128 + ((c \div 64) % 64), 128 + (c % 64)>>

Utf8(s) == Flatten([i \in 1..Len(s) |-> Utf8Char(s[i])])

\* os.path.join(a, b) for a relative b and an a that does not end in sep.
Join(a, b, sep) == a \o <<sep>> \o b

\* os.path.relpath(path, start) for a path below start.
RelPath(path, start) == SubSeq(path, Len(start) + 2, Len(path))

(***************************************************************************)
(* sorted()                                                                 *)
(***************************************************************************)
\* Insert x into the ascending sequence s.
RECURSIVE InsertStr(_, _)
InsertStr(x, s) ==
    IF s = <<>> THEN <<x>>
    ELSE IF StrLess(x, Head(s)) THEN <<x>> \o s
    ELSE <<Head(s)>> \o InsertStr(x, Tail(s))

\* sorted(names) on a list of str.
RECURSIVE SortedStr(_)
SortedStr(s) == IF s = <<>> THEN <<>> ELSE InsertStr(Head(s), SortedStr(Tail(s)))

\* Tuples (root, dirs, files) compare on root first; the roots of one walk
\* are pairwise distinct, so root alone decides.
RECURSIVE InsertTuple(_, _)
InsertTuple(x, s) ==
    IF s = <<>> THEN <<x>>
    ELSE IF StrLess(x.root, Head(s).root) THEN <<x>> \o s
    ELSE <<Head(s)>> \o InsertTuple(x, Tail(s))

\* A faulty variant of SortedWalk: the walk is taken in the order os.walk yields it.
WalkAsYielded(s) == s

\* sorted(os.walk(skill_dir)).
RECURSIVE SortedWalk(_)
SortedWalk(s) == IF s = <<>> THEN <<>> ELSE InsertTuple(Head(s), SortedWalk(Tail(s)))

(***************************************************************************)
(* The file system below a package directory                                *)
(***************************************************************************)
IsPrefix(p, q) == Len(p) <= Len(q) /\ SubSeq(q, 1, Len(p)) = p

\* The directories of a tree: the package directory and every directory on
\* the way to a file.
Dirs(T) == {<<>>} \cup UNION { { SubSeq(f.path, 1, k) : k \in 0..(Len(f.path) - 1) } : f \in T }

\* os.path.isdir / os.path.isfile below the package directory.
IsDir(T, p) == p \in Dirs(T)

IsFile(T, p) == \E f \in T : f.path = p

\* The names in directory d.
Entries(T, d) == { f.path[Len(d) + 1] : f \in { g \in T : Len(g.path) > Len(d) /\ IsPrefix(d, g.path) } }

Perms(S) == { s \in [1..Cardinality(S) -> S] : \A i, j \in 1..Cardinality(S) : s[i] = s[j] => i = j }

\* The orders in which the file system may enumerate each directory.
RECURSIVE ListingsOver(_, _)
ListingsOver(T, D) ==
    IF D = {} THEN { <<>> }
    ELSE LET d == CHOOSE x \in D : TRUE
         IN  { (d :> p) @@ L : p \in Perms(Entries(T, d)), L \in ListingsOver(T, D \ {d}) }

Listings(T) == ListingsOver(T, Dirs(T))

(***************************************************************************)
(* compute_content_hash                                                     *)
(***************************************************************************)
\* The absolute path of the scanned root (skills_dir) and of one package
\* directory in it (skill_dir): "/s" and "/s/<entry>" with the host's sep.
SkillsDirStr(sep) == <<sep, 115>>

SkillDirStr(e, sep) == Join(SkillsDirStr(sep), e, sep)

\* The path string of the directory or file with components p below top.
RECURSIVE FullPath(_, _, _)
FullPath(top, p, sep) ==
    IF p = <<>> THEN top ELSE FullPath(Join(top, Head(p), sep), Tail(p), sep)

\* os.walk(top), top-down: the tuple of the directory, then the walks of its
\* subdirectories in the order the directory listing gave them.  d is the
\* directory's component path, top the path string os.walk carries for it.
RECURSIVE walk(_, _, _, _, _)
RECURSIVE WalkEach(_, _, _, _, _, _)
walk(T, d, top, L, sep) ==
    LET names == L[d]
        dirs  == SelectSeq(names, LAMBDA n : IsDir(T, d \o <<n>>))
        files == SelectSeq(names, LAMBDA n : IsFile(T, d \o <<n>>))
    IN  << [root |-> top, dirs |-> dirs, files |-> files] >>
            \o WalkEach(T, d, top, dirs, L, sep)

WalkEach(T, d, top, dirs, L, sep) ==
    IF dirs = <<>> THEN <<>>
    ELSE walk(T, d \o <<Head(dirs)>>, Join(top, Head(dirs), sep), L, sep)
            \o WalkEach(T, d, top, Tail(dirs), L, sep)

\* open(filepath, "rb").read(): the bytes of the file at a path string.
ReadBytes(T, skill_dir, filepath, sep) ==
    (CHOOSE f \in T : FullPath(skill_dir, f.path, sep) = filepath).data

\* A faulty variant of FilesOf: the files are taken in the order the directory listed them.
FilesAsListed(tuple) == tuple.files

\* The files of one walk tuple in the order the inner loop takes them.
FilesOf(tuple) == SortedStr(tuple.files)

\* The directories in the order the outer loop takes them.
WalkOrder(T, skill_dir, L, sep) == SortedWalk(walk(T, <<>>, skill_dir, L, sep))

\* The two updates made for one file: rel_path.encode("utf-8"), then the
\* file's bytes.
FeedOf(T, skill_dir, walk_root, filename, sep) ==
    LET filepath == Join(walk_root, filename, sep)
        rel_path == RelPath(filepath, skill_dir)
    IN  [rel_path |-> rel_path, bytes |-> Utf8(rel_path) \o ReadBytes(T, skill_dir, filepath, sep)]

\* Every hasher.update of one call, file by file, in order.
HashFeed(T, skill_dir, L, sep) ==
    LET tuples == WalkOrder(T, skill_dir, L, sep)
        one(t) == LET fs == FilesOf(t)
                  IN  [i \in 1..Len(fs) |-> FeedOf(T, skill_dir, t.root, fs[i], sep)]
    IN  Flatten([k \in 1..Len(tuples) |-> one(tuples[k])])

\* hashlib.sha256 over the concatenated updates.  SHA-256 is taken as
\* injective: the digest stands for the byte stream it was fed.
Sha256(stream) == [alg |-> "sha256", of |-> stream]

compute_content_hash(T, skill_dir, L, sep) ==
    LET feed == HashFeed(T, skill_dir, L, sep)
    IN  Sha256(Flatten([i \in 1..Len(feed) |-> feed[i].bytes]))

(***************************************************************************)
(* YAML values and declaration files                                        *)
(***************************************************************************)
\* A value of the parsed block.  t is its Python type; s holds the text of
\* a str, items the elements of a list.
StrVal(s)      == [t |-> "str",  s |-> s,    items |-> <<>>]
IntVal(n)      == [t |-> "int",  s |-> <<n>>, items |-> <<>>]
ListVal(items) == [t |-> "list", s |-> <<>>, items |-> items]
NoneVal        == [t |-> "NoneType", s |-> <<>>, items |-> <<>>]
DictVal        == [t |-> "dict", s |-> <<>>, items |-> << <<107>> >>]
DateVal        == [t |-> "date", s |-> <<>>, items |-> <<>>]
\* The key is not in the mapping.
Absent      == [t |-> "absent", s |-> <<>>, items |-> <<>>]

Keys == {"name", "description", "version", "author", "requires_env", "execution"}

\* A faulty variant of REQUIRED_FIELDS: the required keys are checked in another order.
FieldsReordered == <<"version", "name", "description", "author">>

REQUIRED_FIELDS == <<"name", "description", "version", "author">>

\* A declaration file is a sequence of lines, each one a token: the fence
\* "---", a line "key: value" (or "key:" for a null value), the block list
\* item "- x", the line of plain text "some text", or the line "a: b: c",
\* which is not well-formed YAML.  Every line starts in column 0.
Fence      == [k |-> "fence", key |-> "", val |-> NoneVal]
Text       == [k |-> "text",  key |-> "", val |-> NoneVal]
Item       == [k |-> "item",  key |-> "", val |-> NoneVal]
Bad        == [k |-> "bad",   key |-> "", val |-> NoneVal]
Pair(a, v) == [k |-> "pair",  key |-> a,  val |-> v]

\* "x": the scalar of the list item.
sX == <<120>>

\* The mapping with no key.
EmptyMap == [a \in Keys |-> Absent]

\* content.startswith("---")
StartsWithFence(content) == Len(content) >= 1 /\ content[1] = Fence

\* content.split("---", maxsplit)
RECURSIVE Split(_, _)
Split(content, maxsplit) ==
    LET at == { i \in 1..Len(content) : content[i] = Fence }
    IN  IF maxsplit = 0 \/ at = {} THEN << content >>
        ELSE LET i == CHOOSE x \in at : \A y \in at : x <= y
             IN  << SubSeq(content, 1, i - 1) >>
                    \o Split(SubSeq(content, i + 1, Len(content)), maxsplit - 1)

\* The state of the YAML parser between two lines of a block: the node the
\* document is so far (none, a plain scalar, a block list, a block mapping,
\* or a raised YAMLError), the mapping read so far, and the key whose value
\* is still open (the last line was "key:" or an item of its block list).
LoadState(node, map, open) == [node |-> node, map |-> map, open |-> open]

LoadFailed == LoadState("error", EmptyMap, "")

\* The value of the open key after one more block list item.
WithItem(v) == IF v.t = "list" THEN ListVal(Append(v.items, sX)) ELSE ListVal(<< sX >>)

\* The parser takes one more line.
\*   - the first line decides the node of the document;
\*   - a plain scalar goes on over following lines until one holds ": " or
\*     ends in ":", which is an error;
\*   - a block list takes only further items;
\*   - a block mapping takes further "key: value" lines, a repeated key
\*     keeping its last value, and block list items directly after "key:".
LoadLine(st, tok) ==
    IF st.node = "error" \/ tok.k \notin {"text", "item", "pair"} THEN LoadFailed
    ELSE IF st.node = "none" THEN
        (IF tok.k = "text" THEN LoadState("str", EmptyMap, "")
         ELSE IF tok.k = "item" THEN LoadState("list", EmptyMap, "")
         ELSE LoadState("dict", [EmptyMap EXCEPT ![tok.key] = tok.val],
                        IF tok.val = NoneVal THEN tok.key ELSE ""))
    ELSE IF st.node = "str" THEN
        (IF tok.k \in {"text", "item"} THEN st ELSE LoadFailed)
    ELSE IF st.node = "list" THEN
        (IF tok.k = "item" THEN st ELSE LoadFailed)
    ELSE IF tok.k = "pair" THEN
        LoadState("dict", [st.map EXCEPT ![tok.key] = tok.val],
                  IF tok.val = NoneVal THEN tok.key ELSE "")
    ELSE IF tok.k = "item" /\ st.open # "" THEN
        LoadState("dict", [st.map EXCEPT ![st.open] = WithItem(st.map[st.open])], st.open)
    ELSE LoadFailed

\* The parser state after the lines of a block.
RECURSIVE LoadLines(_)
LoadLines(body) ==
    IF body = <<>> THEN LoadState("none", EmptyMap, "")
    ELSE LoadLine(LoadLines(SubSeq(body, 1, Len(body) - 1)), body[Len(body)])

\* yaml.safe_load(block): a YAMLError, or the value of the block.
safe_load(body) ==
    LET st == LoadLines(body)
    IN  IF st.node = "error" THEN [error |-> TRUE, type |-> "", map |-> EmptyMap]
        ELSE IF st.node = "none"
            THEN [error |-> FALSE, type |-> "NoneType", map |-> EmptyMap]
        ELSE IF st.node = "dict"
            THEN [error |-> FALSE, type |-> "dict", map |-> st.map]
        ELSE [error |-> FALSE, type |-> st.node, map |-> EmptyMap]

(***************************************************************************)
(* parse_skill_md                                                           *)
(***************************************************************************)
\* A line written to standard error about one package directory.
Diag(kind, field, dir) == [kind |-> kind, field |-> field, dir |-> dir]

\* return None after printing one line
Rejected(kind, field, dir) ==
    [ok |-> FALSE, map |-> EmptyMap, printed |-> << Diag(kind, field, dir) >>]

\* The first entry of REQUIRED_FIELDS the loop finds missing; 0 if none.
FirstMissing(map) ==
    LET missing == { i \in 1..Len(REQUIRED_FIELDS) : map[REQUIRED_FIELDS[i]] = Absent }
    IN  IF missing = {} THEN 0 ELSE CHOOSE i \in missing : \A j \in missing : i <= j

\* parse_skill_md(skill_dir) on a package pkg found at directory dir.
parse_skill_md(pkg, dir) ==
    IF ~pkg.has_md THEN Rejected("NoSkillMd", "", dir)
    ELSE IF ~StartsWithFence(pkg.md) THEN Rejected("MissingFrontmatter", "", dir)
    ELSE LET parts == Split(pkg.md, 2)
         IN  IF Len(parts) < 3 THEN Rejected("InvalidFormat", "", dir)
             ELSE LET loaded == safe_load(parts[2])
                  IN  IF loaded.error THEN Rejected("YamlError", "", dir)
                      ELSE IF loaded.type # "dict" THEN Rejected("NotADict", "", dir)
                      ELSE IF FirstMissing(loaded.map) # 0
                          THEN Rejected("MissingField",
                                        REQUIRED_FIELDS[FirstMissing(loaded.map)], dir)
                      ELSE [ok |-> TRUE, map |-> loaded.map, printed |-> <<>>]

(***************************************************************************)
(* The packages a root may hold                                             *)
(***************************************************************************)
\* "n", "d", " d ", "\u00a0d\u001f", "1", "a", "K"
sN == <<110>>
sD == <<100>>
sDpad == <<32, 100, 32>>
sDnbsp == <<160, 100, 31>>
sV == <<49>>
sA == <<97>>
sK == <<75>>

OptPair(a, v) == IF v = Absent THEN <<>> ELSE << Pair(a, v) >>

\* A declaration file with a fenced block of the given values (Absent: the
\* key is left out), followed by free text.
Decl(name, desc, ver, auth, env, exec) ==
    << Fence >> \o OptPair("name", name) \o OptPair("description", desc)
        \o OptPair("version", ver) \o OptPair("author", auth)
        \o OptPair("requires_env", env) \o OptPair("execution", exec)
        \o << Fence, Text >>

\* Blocks with some of the required keys left out.
MissingDecls ==
    { Decl(IF "name" \in M THEN Absent ELSE StrVal(sN),
           IF "description" \in M THEN Absent ELSE StrVal(sD),
           IF "version" \in M THEN Absent ELSE StrVal(sV),
           IF "author" \in M THEN Absent ELSE StrVal(sA), Absent, Absent) :
        M \in { {}, {"name"}, {"description"}, {"version"}, {"author"},
                {"name", "version"},
                {"name", "description", "version", "author"} } }

\* A block with all required keys and requires_env given as a block list:
\* "requires_env:" followed by two items.
BlockListDecl ==
    << Fence, Pair("name", StrVal(sN)), Pair("description", StrVal(sD)),
       Pair("version", StrVal(sV)), Pair("author", StrVal(sA)),
       Pair("requires_env", NoneVal), Item, Item, Fence, Text >>

\* Blocks with all required keys and other values.
ValueDecls ==
    { Decl(StrVal(sN), d, StrVal(sV), StrVal(sA), Absent, Absent) :
        d \in {StrVal(sDpad), StrVal(sDnbsp), IntVal(42), NoneVal} }
    \cup { Decl(StrVal(sN), StrVal(sD), DateVal, StrVal(sA), Absent, Absent) }
    \cup { Decl(StrVal(sN), StrVal(sD), StrVal(sV), StrVal(sA), e, Absent) :
              e \in {ListVal(<<>>), ListVal(<< sK >>), NoneVal} }
    \cup { Decl(StrVal(sN), StrVal(sD), StrVal(sV), StrVal(sA), Absent, x) : x \in {NoneVal, DictVal} }
    \cup { BlockListDecl }

\* Files that do not get as far as a mapping.
ShapeDecls ==
    { <<>>, << Text >>, << Fence >>, << Fence, Pair("name", StrVal(sN)) >>,
      << Fence, Bad, Fence >>, << Fence, Fence >>, << Fence, Text, Fence >>,
      << Fence, Item, Fence, Text >>,
      << Text, Fence, Pair("name", StrVal(sN)), Fence >>,
      << Fence, Text, Item, Fence >>, << Fence, Pair("name", NoneVal), Item, Fence >>,
      << Fence, Pair("name", StrVal(sN)), Item, Fence >> }

\* The payload of a package other than its declaration: none, or "a/ab".
Payload == { [path |-> << <<97>>, <<97, 98>> >>, data |-> <<97>>] }

Packages ==
    { [has_md |-> TRUE, md |-> m, files |-> {}] :
        m \in MissingDecls \cup ValueDecls \cup ShapeDecls }
    \cup { [has_md |-> FALSE, md |-> <<>>, files |-> {}] }
    \cup { [has_md |-> TRUE, md |-> Decl(StrVal(sN), StrVal(sD), StrVal(sV), StrVal(sA), ListVal(<< sK >>), NoneVal),
            files |-> Payload] }

\* "SKILL.md"
SkillMdName == <<83, 75, 73, 76, 76, 46, 109, 100>>

\* The code points of a key.
KeyText(a) ==
    IF a = "name" THEN <<110, 97, 109, 101>>
    ELSE IF a = "description" THEN <<100, 101, 115, 99, 114, 105, 112, 116, 105, 111, 110>>
    ELSE IF a = "version" THEN <<118, 101, 114, 115, 105, 111, 110>>
    ELSE IF a = "author" THEN <<97, 117, 116, 104, 111, 114>>
    ELSE IF a = "requires_env" THEN <<114, 101, 113, 117, 105, 114, 101, 115, 95, 101, 110, 118>>
    ELSE <<101, 120, 101, 99, 117, 116, 105, 111, 110>>

\* The hexadecimal digit of n < 16, and the n-digit hexadecimal form of c.
HexDigit(n) == IF n < 10 THEN 48 + n ELSE 87 + n

RECURSIVE Hex(_, _)
Hex(c, n) == IF n = 0 THEN <<>> ELSE Hex(c \div 16, n - 1) \o << HexDigit(c % 16) >>

\* The decimal form of n >= 0.
RECURSIVE Decimal(_)
Decimal(n) == IF n < 10 THEN << 48 + n >> ELSE Decimal(n \div 10) \o << 48 + (n % 10) >>

\* One code point inside a double-quoted YAML scalar: the quote and the
\* backslash escaped, printable ASCII as it is, anything else as \xHH,
\* \uHHHH or \UHHHHHHHH.
EscapeChar(c) ==
    IF c = 34 THEN <<92, 34>>
    ELSE IF c = 92 THEN <<92, 92>>
    ELSE IF c >= 32 /\ c <= 126 THEN <<c>>
    ELSE IF c < 256 THEN <<92, 120>> \o Hex(c, 2)
    ELSE IF c < 65536 THEN <<92, 117>> \o Hex(c, 4)
    ELSE <<92, 85>> \o Hex(c, 8)

\* The double-quoted YAML scalar of the str s.
Quoted(s) == <<34>> \o Flatten([i \in 1..Len(s) |-> EscapeChar(s[i])]) \o <<34>>

\* The quoted items of a flow list, separated by ", ".
RECURSIVE FlowItems(_)
FlowItems(items) ==
    IF items = <<>> THEN <<>>
    ELSE IF Len(items) = 1 THEN Quoted(Head(items))
    ELSE Quoted(Head(items)) \o <<44, 32>> \o FlowItems(Tail(items))

\* The text a value has in the file: a double-quoted str, a decimal int, a
\* flow list of str, the flow mapping {"k": 1}, the date 2024-01-01.
ValueText(v) ==
    IF v.t = "str" THEN Quoted(v.s)
    ELSE IF v.t = "int" THEN Decimal(v.s[1])
    ELSE IF v.t = "list" THEN <<91>> \o FlowItems(v.items) \o <<93>>
    ELSE IF v.t = "dict" THEN <<123>> \o Quoted(v.items[1]) \o <<58, 32, 49, 125>>
    ELSE IF v.t = "date" THEN <<50, 48, 50, 52, 45, 48, 49, 45, 48, 49>>
    ELSE <<>>

\* The text of one line of a declaration file, without its line end.
TokenText(tok) ==
    IF tok.k = "fence" THEN <<45, 45, 45>>
    ELSE IF tok.k = "text" THEN <<115, 111, 109, 101, 32, 116, 101, 120, 116>>
    ELSE IF tok.k = "item" THEN <<45, 32>> \o sX
    ELSE IF tok.k = "bad" THEN <<97, 58, 32, 98, 58, 32, 99>>
    ELSE IF tok.val = NoneVal THEN KeyText(tok.key) \o <<58>>
    ELSE KeyText(tok.key) \o <<58, 32>> \o ValueText(tok.val)

\* The bytes of one line of a declaration file: its text and a line feed.
TokenBytes(tok) == Utf8(TokenText(tok) \o <<10>>)

\* The file tree of a package directory: its declaration file, if any, and
\* its payload.
PackageTree(pkg) ==
    pkg.files \cup
    (IF pkg.has_md
        THEN { [path |-> << SkillMdName >>,
                data |-> Flatten([i \in 1..Len(pkg.md) |-> TokenBytes(pkg.md[i])])] }
        ELSE {})

(***************************************************************************)
(* main                                                                     *)
(***************************************************************************)
\* Largest number of entries in the skills root.
MaxEntries == 2

\* "ba", "bar", "foo"
EntryNames == { <<98, 97>>, <<98, 97, 114>>, <<102, 111, 111>> }

\* An entry of the root: a plain file, or a package directory.
PlainFile == [isdir |-> FALSE, pkg |-> [has_md |-> FALSE, md |-> <<>>, files |-> {}]]

EntryKinds == { PlainFile } \cup { [isdir |-> TRUE, pkg |-> p] : p \in Packages }

NoRoot == [exists |-> FALSE, entries |-> <<>>]

Roots ==
    { NoRoot } \cup
    { [exists |-> TRUE, entries |-> e] :
        e \in UNION { [S -> EntryKinds] :
                        S \in { X \in SUBSET EntryNames : Cardinality(X) <= MaxEntries } } }

\* The file at OUTPUT_FILE: what it holds, and whether the run opened it.
NoOutput  == [state |-> "absent", doc |-> <<>>, opened |-> FALSE]
OldOutput == [state |-> "old", doc |-> <<>>, opened |-> FALSE]

NoFrontmatter == [ok |-> FALSE, map |-> EmptyMap, printed |-> <<>>]
NoHash == [alg |-> "", of |-> <<>>]

\* str.strip(): leading and trailing whitespace removed.  The whitespace of
\* str is every code point c with chr(c).isspace().
IsSpace(c) ==
    \/ c \in 9..13
    \/ c \in 28..32
    \/ c \in {133, 160, 5760}
    \/ c \in 8192..8202
    \/ c \in {8232, 8233, 8239, 8287, 12288}

RECURSIVE LStrip(_)
LStrip(s) == IF s # <<>> /\ IsSpace(Head(s)) THEN LStrip(Tail(s)) ELSE s

RECURSIVE RStrip(_)
RStrip(s) ==
    IF s # <<>> /\ IsSpace(s[Len(s)]) THEN RStrip(SubSeq(s, 1, Len(s) - 1)) ELSE s

Strip(s) == RStrip(LStrip(s))

\* bool(value)
Truthy(v) ==
    IF v.t = "str" THEN v.s # <<>>
    ELSE IF v.t = "int" THEN v.s # <<0>>
    ELSE IF v.t \in {"list", "dict"} THEN v.items # <<>>
    ELSE v.t \notin {"NoneType", "absent"}

\* frontmatter.get("requires_env", []), then: requires_env if requires_env else []
RequiresEnv(map) ==
    LET requires_env == IF map["requires_env"] = Absent THEN ListVal(<<>>)
                        ELSE map["requires_env"]
    IN  IF Truthy(requires_env) THEN requires_env ELSE ListVal(<<>>)

\* A faulty variant of HasExecution: the flag follows the truth value of the key's value.
ExecutionTruthy(map) == Truthy(map["execution"])

\* "execution" in frontmatter
HasExecution(map) == map["execution"] # Absent

\* The record appended for a package.
SkillRecord(map, hash) ==
    [id |-> map["name"],
     description |-> StrVal(Strip(map["description"].s)),
     version |-> map["version"],
     author |-> map["author"],
     contentHash |-> hash,
     requiresEnv |-> RequiresEnv(map),
     hasExecutionManifest |-> HasExecution(map)]

\* json.dump accepts the value.
JsonSerializable(v) == v.t \in {"str", "int", "NoneType", "list", "dict"}

RecordSerializable(r) ==
    /\ JsonSerializable(r.id) /\ JsonSerializable(r.description)
    /\ JsonSerializable(r.version) /\ JsonSerializable(r.author)
    /\ JsonSerializable(r.requiresEnv)

Call(op, dir, ok) == [op |-> op, dir |-> dir, ok |-> ok]

HashIdle == tree = {} /\ runs = {} /\ prior = {} /\ lastEdit = "none"

MainIdle ==
    /\ host = "posix" /\ root = NoRoot /\ output = NoOutput /\ pc = "idle"
    /\ todo = <<>> /\ entry = <<>> /\ skills = <<>> /\ errors = 0
    /\ frontmatter = NoFrontmatter /\ content_hash = NoHash
    /\ stderr = <<>> /\ status = 0 /\ raised = "" /\ calls = <<>>

Init ==
    /\ HashIdle
    /\ host \in Hosts
    /\ root \in Roots
    /\ output \in {NoOutput, OldOutput}
    /\ pc = "start"
    /\ todo = <<>>
    /\ entry = <<>>
    /\ skills = <<>>
    /\ errors = 0
    /\ frontmatter = NoFrontmatter
    /\ content_hash = NoHash
    /\ stderr = <<>>
    /\ status = 0
    /\ raised = ""
    /\ calls = <<>>

\* The path of an entry of the root: os.path.join(skills_dir, entry).
SkillDir(e) == SkillDirStr(e, Sep(host))

\* A faulty variant of AfterParse: the package is hashed whatever parse_skill_md returned.
AlwaysHash(parsed) == "hash"

\* Where main goes after parse_skill_md returned.
AfterParse(parsed) == IF parsed.ok THEN "hash" ELSE "loop"

\* A faulty variant of ScanOrder: the entries are taken in the order os.listdir gave them.
ListedOrder(listing) == listing

\* The order in which the loop takes the entries: sorted(os.listdir(skills_dir)).
ScanOrder(listing) == SortedStr(listing)

\* Lines 79-82: the root is missing or not a directory; sys.exit(1).
RootMissing ==
    /\ pc = "start"
    /\ ~root.exists
    /\ stderr' = Append(stderr, Diag("RootNotFound", "", SkillsDirStr(Sep(host))))
    /\ status' = 1
    /\ pc' = "exit"
    /\ UNCHANGED <<hashVars, host, root, output, todo, entry, skills, errors,
                   frontmatter, content_hash, raised, calls>>

\* Line 84: the root is listed, in any order, and the listing sorted.
Scan ==
    /\ pc = "start"
    /\ root.exists
    /\ \E listing \in Perms(DOMAIN root.entries) : todo' = ScanOrder(listing)
    /\ pc' = "loop"
    /\ UNCHANGED <<hashVars, host, root, output, entry, skills, errors, frontmatter,
                   content_hash, stderr, status, raised, calls>>

\* Lines 85-87: an entry that is not a directory is passed over.
SkipEntry ==
    /\ pc = "loop"
    /\ todo # <<>>
    /\ ~root.entries[Head(todo)].isdir
    /\ entry' = Head(todo)
    /\ todo' = Tail(todo)
    /\ UNCHANGED <<hashVars, host, root, output, pc, skills, errors, frontmatter,
                   content_hash, stderr, status, raised, calls>>

\* Lines 89-93: the entry is parsed; a failure is counted and the loop goes on.
ParseEntry ==
    /\ pc = "loop"
    /\ todo # <<>>
    /\ root.entries[Head(todo)].isdir
    /\ LET parsed == parse_skill_md(root.entries[Head(todo)].pkg, SkillDir(Head(todo)))
       IN  /\ calls' = Append(calls, Call("parse", Head(todo), parsed.ok))
           /\ stderr' = stderr \o parsed.printed
           /\ pc' = AfterParse(parsed)
           /\ frontmatter' = parsed
           /\ errors' = IF parsed.ok THEN errors ELSE errors + 1
    /\ entry' = Head(todo)
    /\ todo' = Tail(todo)
    /\ UNCHANGED <<hashVars, host, root, output, skills, content_hash, status, raised>>

\* Line 95: the package directory is hashed.
HashEntry ==
    /\ pc = "hash"
    /\ \E L \in Listings(PackageTree(root.entries[entry].pkg)) :
          content_hash' = compute_content_hash(PackageTree(root.entries[entry].pkg),
                                               SkillDir(entry), L, Sep(host))
    /\ calls' = Append(calls, Call("hash", entry, TRUE))
    /\ pc' = "append"
    /\ UNCHANGED <<hashVars, host, root, output, todo, entry, skills, errors, frontmatter,
                   stderr, status, raised>>

\* Lines 96-109: the record is built and appended.  A description that is
\* not a str has no strip(): the AttributeError ends the run.
AppendEntry ==
    /\ pc = "append"
    /\ IF frontmatter.map["description"].t = "str"
          THEN /\ skills' = Append(skills, SkillRecord(frontmatter.map, content_hash))
               /\ calls' = Append(calls, Call("append", entry, TRUE))
               /\ pc' = "loop"
               /\ UNCHANGED <<status, raised>>
          ELSE /\ raised' = "AttributeError"
               /\ status' = 1
               /\ pc' = "exit"
               /\ UNCHANGED <<skills, calls>>
    /\ UNCHANGED <<hashVars, host, root, output, todo, entry, errors, frontmatter,
                   content_hash, stderr>>

\* The loop has taken every entry.
LoopEnd ==
    /\ pc = "loop"
    /\ todo = <<>>
    /\ pc' = "check"
    /\ UNCHANGED <<hashVars, host, root, output, todo, entry, skills, errors, frontmatter,
                   content_hash, stderr, status, raised, calls>>

\* Lines 111-113: errors were counted; sys.exit(1).
Fail ==
    /\ pc = "check"
    /\ errors > 0
    /\ stderr' = Append(stderr, Diag("FailedValidation", "", <<>>))
    /\ status' = 1
    /\ pc' = "exit"
    /\ UNCHANGED <<hashVars, host, root, output, todo, entry, skills, errors,
                   frontmatter, content_hash, raised, calls>>

\* Lines 115-122: the output file is opened for writing (and so truncated)
\* and the registry dumped into it.  json.dump writes as it goes: a value it
\* cannot serialize raises TypeError after part of the text is written.
Emit ==
    /\ pc = "check"
    /\ errors = 0
    /\ IF \A i \in 1..Len(skills) : RecordSerializable(skills[i])
          THEN /\ output' = [state |-> "written", doc |-> skills, opened |-> TRUE]
               /\ UNCHANGED <<status, raised>>
          ELSE /\ output' = [state |-> "partial", doc |-> <<>>, opened |-> TRUE]
               /\ status' = 1
               /\ raised' = "TypeError"
    /\ pc' = "exit"
    /\ UNCHANGED <<hashVars, host, root, todo, entry, skills, errors, frontmatter,
                   content_hash, stderr, calls>>

Next ==
    \/ RootMissing
    \/ Scan
    \/ SkipEntry
    \/ ParseEntry
    \/ HashEntry
    \/ AppendEntry
    \/ LoopEnd
    \/ Fail
    \/ Emit

Spec == Init /\ [][Next]_vars

(***************************************************************************)
(* HashSpec: one package tree hashed repeatedly, on either host family and *)
(* under any enumeration order of its directories.                         *)
(***************************************************************************)
\* The package directory's name: "bar".
PkgName == <<98, 97, 114>>

\* One call of compute_content_hash on host h under listing L: its result,
\* and the relative paths in the order they were fed.
RunOf(T, L, h) ==
    LET sd == SkillDirStr(PkgName, Sep(h))
        feed == HashFeed(T, sd, L, Sep(h))
    IN  [host |-> h, listing |-> L,
         hash |-> compute_content_hash(T, sd, L, Sep(h)),
         fed  |-> [i \in 1..Len(feed) |-> feed[i].rel_path]]

HashInit ==
    /\ MainIdle
    /\ tree \in Trees
    /\ runs = {}
    /\ prior = {}
    /\ lastEdit = "none"

HashRun(h) ==
    /\ Cardinality(runs) < MaxRuns
    /\ \E L \in Listings(tree) : runs' = runs \cup {RunOf(tree, L, h)}
    /\ UNCHANGED <<tree, prior, lastEdit, mainVars>>

HashNext == \E h \in Hosts : HashRun(h)

HashSpec == HashInit /\ [][HashNext]_vars

(***************************************************************************)
(* EditSpec: a tree is hashed, one file-level edit is made, and the edited *)
(* tree is hashed again on the same host.                                  *)
(***************************************************************************)
Bytes == {97, 98}

HashOnce(h) ==
    /\ runs = {}
    /\ \A q \in prior : q.host = h
    /\ \E L \in Listings(tree) : runs' = {RunOf(tree, L, h)}
    /\ UNCHANGED <<tree, prior, lastEdit, mainVars>>

\* The edit replaces the hashed tree by T and keeps the earlier result.
Edited(T, kind) ==
    /\ lastEdit = "none"
    /\ runs # {}
    /\ tree' = T
    /\ prior' = runs
    /\ runs' = {}
    /\ lastEdit' = kind
    /\ UNCHANGED mainVars

ChangeByte ==
    \E f \in tree : \E i \in 1..Len(f.data) : \E b \in Bytes \ {f.data[i]} :
        Edited((tree \ {f}) \cup {[f EXCEPT !.data[i] = b]}, "byte")

RenameFile ==
    \E f \in tree : \E n \in FileNames \ {Last(f.path)} :
        /\ ~IsFile(tree, Front(f.path) \o <<n>>)
        /\ Edited((tree \ {f}) \cup {[f EXCEPT !.path = Front(f.path) \o <<n>>]}, "rename")

MoveFile ==
    \E f \in tree : \E d \in DirPaths \ {Front(f.path)} :
        /\ ~IsFile(tree, d \o <<Last(f.path)>>)
        /\ Edited((tree \ {f}) \cup {[f EXCEPT !.path = d \o <<Last(f.path)>>]}, "move")

AddFile ==
    \E g \in FileUniverse :
        /\ ~IsFile(tree, g.path)
        /\ Edited(tree \cup {g}, "add")

DeleteFile ==
    \E f \in tree : Edited(tree \ {f}, "delete")

EditNext ==
    \/ \E h \in Hosts : HashOnce(h)
    \/ ChangeByte
    \/ RenameFile
    \/ MoveFile
    \/ AddFile
    \/ DeleteFile

EditInit ==
    /\ MainIdle
    /\ tree \in EditTrees
    /\ runs = {}
    /\ prior = {}
    /\ lastEdit = "none"

EditSpec == EditInit /\ [][EditNext]_vars

(***************************************************************************)
(* Claims about compute_content_hash                                        *)
(***************************************************************************)
\* The relative path string of a file with components p.
RECURSIVE RelStr(_, _)
RelStr(p, sep) ==
    IF Len(p) = 1 THEN Head(p) ELSE Head(p) \o <<sep>> \o RelStr(Tail(p), sep)

\* The names of S in ascending order.
Ascending(S) ==
    CHOOSE s \in Perms(S) : \A i, j \in 1..Cardinality(S) : i < j => StrLess(s[i], s[j])

\* The level-by-level traversal: a directory's own files in ascending name
\* order, then its subdirectories in ascending name order, each completely
\* before its next sibling.
RECURSIVE LevelVisit(_, _)
LevelVisit(T, d) ==
    LET names == Entries(T, d)
        files == Ascending({ n \in names : IsFile(T, d \o <<n>>) })
        subs  == Ascending({ n \in names : IsDir(T, d \o <<n>>) })
    IN  [i \in 1..Len(files) |-> d \o <<files[i]>>]
            \o Flatten([i \in 1..Len(subs) |-> LevelVisit(T, d \o <<subs[i]>>)])

LevelFed(T, sep) ==
    LET order == LevelVisit(T, <<>>)
    IN  [i \in 1..Len(order) |-> RelStr(order[i], sep)]

InSubdirectory(T) == \E f \in T : Len(f.path) > 1

\* C3 (as stated): after any single edit of the tree (one byte changed, one
\* file renamed, moved, added or deleted) the fingerprint differs from the
\* fingerprint before the edit.
C3_EveryEditChangesFingerprint ==
    \A r \in runs : \A q \in prior : r.host = q.host => r.hash # q.hash

\* C4: for a fixed tree, every run on one host yields the same fingerprint,
\* whatever order each directory was enumerated in.
C4_SameFingerprintUnderEveryListing ==
    \A r \in runs : \A q \in runs : r.host = q.host => r.hash = q.hash

\* Two runs on one host whose listings differ, over at least two files.
C4_Witness ==
    \E r \in runs : \E q \in runs :
        r.host = q.host /\ r.listing # q.listing /\ Len(r.fed) >= 2 /\ r.hash = q.hash

\* C5 (as stated): a tree with a file below a subdirectory has the same
\* fingerprint on hosts that differ only in their path separator.
C5_SameFingerprintOnEveryHost ==
    InSubdirectory(tree) => \A r \in runs : \A q \in runs : r.hash = q.hash

\* C10 (as stated): the files are fed in the order of the level-by-level
\* lexicographic traversal.
C10_FedInLevelOrder ==
    \A r \in runs : r.fed = LevelFed(tree, Sep(r.host))

\* A directory with a subdirectory has a sibling whose name is the
\* directory's name followed by a character that sorts below the separator.
ShadowedSibling(T, sep) ==
    \E d \in Dirs(T) : \E e \in Dirs(T) :
        /\ Len(d) >= 1 /\ Len(e) = Len(d)
        /\ Front(e) = Front(d)
        /\ Len(Last(e)) > Len(Last(d))
        /\ IsPrefix(Last(d), Last(e))
        /\ Last(e)[Len(Last(d)) + 1] < sep
        /\ \E c \in Dirs(T) : Len(c) = Len(d) + 1 /\ IsPrefix(d, c)

\* C10 (amended): the files are fed in level-by-level order in every tree
\* where no directory that has a subdirectory has a sibling named by its own
\* name followed by a character sorting below the path separator.
C10_FedInLevelOrderUnlessShadowed ==
    \A r \in runs : ~ShadowedSibling(tree, Sep(r.host)) => r.fed = LevelFed(tree, Sep(r.host))

\* A run over files in two directories, one of them nested, and with the
\* sibling names "a" and "a-b" both present.
C10_Witness ==
    \E r \in runs :
        /\ ~ShadowedSibling(tree, Sep(r.host))
        /\ \E f \in tree : \E g \in tree :
              /\ Len(f.path) = 2 /\ Len(g.path) = 2
              /\ Last(Front(g.path)) # Last(Front(f.path))
        /\ r.fed = LevelFed(tree, Sep(r.host))

(***************************************************************************)
(* Claims about main and parse_skill_md                                     *)
(***************************************************************************)
\* The immediate subdirectories of the root.
Subdirs == { e \in DOMAIN root.entries : root.entries[e].isdir }

\* The package directory e passes validation.
Valid(e) == parse_skill_md(root.entries[e].pkg, SkillDir(e)).ok

\* The directories of the calls of one kind, in call order.
DirsOf(op) ==
    LET sel == SelectSeq(calls, LAMBDA c : c.op = op)
    IN  [i \in 1..Len(sel) |-> sel[i].dir]

Appended == DirsOf("append")

\* The directories whose parse failed so far.
FailedDirs == { calls[i].dir : i \in { j \in 1..Len(calls) : calls[j].op = "parse" /\ ~calls[j].ok } }

\* The run got to the end of the scan loop.
ReachedCheck == root.exists /\ (pc = "check" \/ (pc = "exit" /\ raised # "AttributeError"))

\* C1 (as stated): a run that reaches the end of the scan loop writes the
\* artifact and exits 0 if and only if the error counter is zero; with a
\* failed package it exits 1 and the output path is never opened, its
\* earlier content unchanged.
C1_ArtifactIffNoErrors ==
    (pc = "exit" /\ ReachedCheck) =>
        /\ (errors = 0) <=> (output.state = "written" /\ status = 0)
        /\ errors > 0 => status = 1 /\ ~output.opened /\ output \in {NoOutput, OldOutput}

\* C2 (as stated): when the root exists, the run ends only after every
\* subdirectory was processed, each one appended or counted as a failure.
C2_EverySubdirectoryProcessed ==
    (pc = "exit" /\ root.exists) =>
        \A e \in Subdirs :
            \/ \E i \in 1..Len(Appended) : Appended[i] = e
            \/ e \in FailedDirs

\* C6: at the end of the scan loop the registry holds exactly one record for
\* each subdirectory that passed validation, in ascending order of directory
\* name; every failed subdirectory was counted once, plain files not at all.
C6_RegistryIsTheValidSubdirsAscending ==
    pc = "check" =>
        /\ Len(skills) = Len(Appended)
        /\ \A i, j \in 1..Len(Appended) : i < j => StrLess(Appended[i], Appended[j])
        /\ { Appended[i] : i \in 1..Len(Appended) } = { e \in Subdirs : Valid(e) }
        /\ errors = Cardinality({ e \in Subdirs : ~Valid(e) })

\* The loop ended with the records of two valid packages.
C6_Witness ==
    /\ pc = "check"
    /\ Len(skills) = 2
    /\ StrLess(Appended[1], Appended[2])

\* C7: a directory is hashed only directly after its own successful parse,
\* a record is appended only directly after the parse and the hash of its
\* directory, and a directory whose parse failed is never hashed.
C7_ParseThenHashThenAppend ==
    \A i \in 1..Len(calls) :
        /\ calls[i].op = "hash" =>
              i > 1 /\ calls[i - 1] = Call("parse", calls[i].dir, TRUE)
        /\ calls[i].op = "append" =>
              /\ i > 2
              /\ calls[i - 1] = Call("hash", calls[i].dir, TRUE)
              /\ calls[i - 2] = Call("parse", calls[i].dir, TRUE)
        /\ (calls[i].op = "parse" /\ ~calls[i].ok) =>
              /\ \A j \in 1..Len(calls) : calls[j].dir = calls[i].dir => j = i
              /\ errors >= 1

\* A failed package was passed over and the next one parsed, hashed and
\* appended.
C7_Witness ==
    /\ Len(calls) = 4
    /\ calls[1].op = "parse" /\ ~calls[1].ok
    /\ calls[4].op = "append"
    /\ errors = 1

\* The tokens between the first and the second fence of a file that starts
\* with a fence and holds a second one.
Block(md) ==
    LET second == CHOOSE i \in 2..Len(md) : md[i] = Fence /\ \A j \in 2..(i - 1) : md[j] # Fence
    IN  SubSeq(md, 2, second - 1)

\* The one diagnostic the stated order of checks gives for a package: the
\* declaration file, the fence prefix, the three parts, the structured
\* parse, the mapping, then name, description, version, author.
ExpectedKind(pkg) ==
    IF ~pkg.has_md THEN <<"NoSkillMd", "">>
    ELSE IF pkg.md = <<>> \/ Head(pkg.md) # Fence THEN <<"MissingFrontmatter", "">>
    ELSE IF Cardinality({ i \in 1..Len(pkg.md) : pkg.md[i] = Fence }) < 2
        THEN <<"InvalidFormat", "">>
    ELSE LET loaded == safe_load(Block(pkg.md))
         IN  IF loaded.error THEN <<"YamlError", "">>
             ELSE IF loaded.type # "dict" THEN <<"NotADict", "">>
             ELSE IF loaded.map["name"] = Absent THEN <<"MissingField", "name">>
             ELSE IF loaded.map["description"] = Absent THEN <<"MissingField", "description">>
             ELSE IF loaded.map["version"] = Absent THEN <<"MissingField", "version">>
             ELSE IF loaded.map["author"] = Absent THEN <<"MissingField", "author">>
             ELSE <<"", "">>

\* The diagnostics printed about directory e.
PrintedFor(e) == SelectSeq(stderr, LAMBDA d : d.dir = SkillDir(e))

\* C8: a package that failed validation got exactly one diagnostic, that of
\* the first failing check in the stated order; it is not in the registry
\* and the error counter grew by one for it.
C8_OneDiagnosticOfFirstFailingCheck ==
    /\ \A e \in FailedDirs :
          /\ Len(PrintedFor(e)) = 1
          /\ <<PrintedFor(e)[1].kind, PrintedFor(e)[1].field>> = ExpectedKind(root.entries[e].pkg)
          /\ \A i \in 1..Len(Appended) : Appended[i] # e
    /\ errors = Cardinality(FailedDirs)
    /\ \A i \in 1..Len(calls) :
          (calls[i].op = "parse" /\ calls[i].ok) =>
              /\ ExpectedKind(root.entries[calls[i].dir].pkg) = <<"", "">>
              /\ PrintedFor(calls[i].dir) = <<>>

\* Two packages failed: one missing only version, one missing several keys.
C8_Witness ==
    /\ errors = 2
    /\ \E i \in 1..Len(stderr) : stderr[i].kind = "MissingField" /\ stderr[i].field = "version"
    /\ \E e \in FailedDirs :
          /\ PrintedFor(e)[1].kind = "MissingField"
          /\ safe_load(Block(root.entries[e].pkg.md)).map["name"] = Absent
          /\ safe_load(Block(root.entries[e].pkg.md)).map["version"] = Absent
          /\ PrintedFor(e)[1].field = "name"

\* The mapping declared by the package in directory e.
Declared(e) == safe_load(Block(root.entries[e].pkg.md)).map

AllSpace(s) == \A i \in 1..Len(s) : IsSpace(s[i])

\* t is s without its leading and trailing whitespace.
IsStripped(t, s) ==
    /\ t = <<>> \/ (~IsSpace(t[1]) /\ ~IsSpace(t[Len(t)]))
    /\ \E i \in 0..Len(s) :
          /\ i + Len(t) <= Len(s)
          /\ SubSeq(s, i + 1, i + Len(t)) = t
          /\ AllSpace(SubSeq(s, 1, i))
          /\ AllSpace(SubSeq(s, i + Len(t) + 1, Len(s)))

\* C9: every record is the projection of its package's declared mapping:
\* id, version, author as declared, description stripped, requiresEnv the
\* declared sequence or empty when the key is absent, hasExecutionManifest
\* true exactly when the key execution is present.
C9_RecordIsProjection ==
    Len(skills) = Len(Appended) /\
    \A i \in 1..Len(skills) :
        LET m == Declared(Appended[i])
            r == skills[i]
        IN  /\ r.id = m["name"]
            /\ r.version = m["version"]
            /\ r.author = m["author"]
            /\ r.description.t = "str"
            /\ IsStripped(r.description.s, m["description"].s)
            /\ m["requires_env"] = Absent => r.requiresEnv = ListVal(<<>>)
            /\ m["requires_env"].t = "list" => r.requiresEnv = m["requires_env"]
            /\ r.hasExecutionManifest <=> (m["execution"] # Absent)

\* A record of a package whose execution key is present with a null value,
\* beside a record whose description had surrounding whitespace.
C9_Witness ==
    /\ \E i \in 1..Len(skills) :
          /\ Declared(Appended[i])["execution"] = NoneVal
          /\ skills[i].hasExecutionManifest
          /\ skills[i].requiresEnv = ListVal(<< sK >>)
    /\ \E i \in 1..Len(skills) :
          /\ Declared(Appended[i])["description"].s # skills[i].description.s

====
